---- MODULE Spec2Model ----
(***************************************************************************)
(* Game mechanics of RPG_DM_Agent: the Vampire V5 dice pool of             *)
(* dice_roller.py, the experience table of rule_engine.py and the          *)
(* progression operations of experience_system.py / character_manager.py.  *)
(*                                                                         *)
(* Python dicts are functions over the keys that are present; d.get(k, x)  *)
(* is Get(d, k, x) and d[k] = v is Put(d, k, v).  The last_updated         *)
(* timestamp and the log lines carry no mechanics and are left out, except *)
(* for the "ready to level up" log line, which is the variable signal.     *)
(* A value of the loaded rule tables is a node tagged with its Python      *)
(* type, so that isinstance and truthiness can be decided.                 *)
(***************************************************************************)
EXTENDS Integers, Sequences, FiniteSets, TLC

VARIABLES character, op, ret, signal, args, result, rules_cache

vars == <<character, op, ret, signal, args, result, rules_cache>>

-----------------------------------------------------------------------------
(* Bounds of the model *)

MaxAttribute == 2
MaxHunger == 4
MaxLevel == 3
MaxXP == 3000
MaxDebt == 1000
MaxScore == 11
MaxRank == 1
MaxAbilities == 1
MaxCheckLevel == 12
MaxOptionLevel == 8
MaxCount == 2
MaxSides == 6
MaxModifier == 3
MaxAttackerLevel == 9
MaxAbilityScore == 20
MaxPathLen == 4

-----------------------------------------------------------------------------
(* Python dict and list helpers *)

EmptyDict == [k \in {} |-> 0]

Get(d, k, default) == IF k \in DOMAIN d THEN d[k] ELSE default

Put(d, k, v) == [x \in (DOMAIN d) \cup {k} |-> IF x = k THEN v ELSE d[x]]

RECURSIVE Count(_, _)
Count(rolls, face) ==
    IF rolls = <<>> THEN 0
    ELSE (IF Head(rolls) = face THEN 1 ELSE 0) + Count(Tail(rolls), face)

Range(n) == 1..(IF n > 0 THEN n ELSE 0)

Min(a, b) == IF a <= b THEN a ELSE b

Max(a, b) == IF a >= b THEN a ELSE b

-----------------------------------------------------------------------------
(* dice_roller.py: DiceRoller.roll_dice_pool *)

MinFace == 1
MaxFace == 10
Faces == MinFace..MaxFace

NoResult == [none |-> TRUE]

_create_error_result(attribute, skill, difficulty, hunger, error_msg) ==
    [pool_size |-> 0, attribute |-> attribute, skill |-> skill,
     difficulty |-> difficulty, hunger |-> hunger,
     successes |-> 0, total_successes |-> 0,
     critical |-> FALSE, bestial_failure |-> FALSE, messy_critical |-> FALSE,
     error |-> error_msg]

\* variant: hunger takes no die away from the normal dice
NormalDice_whole(pool_size, hunger) == pool_size

NormalDice(pool_size, hunger) == Min(pool_size, pool_size - hunger)

\* variant: hunger is not clamped to the pool
HungerDice_unclamped(pool_size, hunger) == hunger

HungerDice(pool_size, hunger) == Min(hunger, pool_size)

\* every pair of lists random.randint(1, 10) can produce
_roll_dice_pool_dice(pool_size, hunger) ==
    { <<n, h>> : n \in [Range(NormalDice(pool_size, hunger)) -> Faces],
                 h \in [Range(HungerDice(pool_size, hunger)) -> Faces] }

SuccessFace == 6

\* variant: a 10 counts once
_count_successes_single(rolls) == Len(SelectSeq(rolls, LAMBDA f : f >= SuccessFace))

RECURSIVE _count_successes(_)
_count_successes(rolls) ==
    IF rolls = <<>> THEN 0
    ELSE (IF Head(rolls) >= SuccessFace THEN 1 ELSE 0)
         + (IF Head(rolls) = MaxFace THEN 1 ELSE 0)
         + _count_successes(Tail(rolls))

CriticalTens == 2

IsCritical(tens) == tens >= CriticalTens

\* variant: the zero-successes condition is dropped
IsBestialFailure_anyOne(hunger_rolls, successes) == Count(hunger_rolls, 1) > 0

IsBestialFailure(hunger_rolls, successes) ==
    successes = 0 /\ Count(hunger_rolls, 1) > 0

\* variant: the hunger-dice condition is dropped
IsMessyCritical_anyPool(critical, hunger_rolls) == critical

IsMessyCritical(critical, hunger_rolls) == critical /\ Len(hunger_rolls) > 0

_check_special_effects(normal_rolls, hunger_rolls, successes) ==
    LET tens == Count(normal_rolls, MaxFace) + Count(hunger_rolls, MaxFace)
        critical == IsCritical(tens)
    IN [critical |-> critical,
        bestial_failure |-> IsBestialFailure(hunger_rolls, successes),
        messy_critical |-> IsMessyCritical(critical, hunger_rolls)]

CriticalSuccesses == 4

\* variant: the critical override is dropped
_calculate_total_successes_raw(successes, special_effects) == successes

_calculate_total_successes(successes, special_effects) ==
    IF special_effects.critical THEN CriticalSuccesses ELSE successes

IsSuccess(total_successes, difficulty) == total_successes >= difficulty

_build_dice_pool_result(attribute, skill, difficulty, hunger, pool_size, normal_rolls, hunger_rolls, successes, total_successes, special_effects) ==
    [pool_size |-> pool_size, attribute |-> attribute, skill |-> skill,
     difficulty |-> difficulty, hunger |-> hunger,
     normal_rolls |-> normal_rolls, hunger_rolls |-> hunger_rolls,
     all_rolls |-> normal_rolls \o hunger_rolls,
     successes |-> successes, total_successes |-> total_successes,
     critical |-> special_effects.critical,
     bestial_failure |-> special_effects.bestial_failure,
     messy_critical |-> special_effects.messy_critical,
     success |-> IsSuccess(total_successes, difficulty)]

\* variant: an empty pool is let through
PoolIsInvalid_strict(pool_size, hunger) == pool_size < 0

PoolIsInvalid(pool_size, hunger) == pool_size <= 0

\* the results roll_dice_pool can return for one call
RollDicePoolResults(attribute, skill, difficulty, hunger) ==
    LET pool_size == attribute + skill IN
    IF PoolIsInvalid(pool_size, hunger)
    THEN { _create_error_result(attribute, skill, difficulty, hunger,
                                "Dice pool must be at least 1 die") }
    ELSE { LET successes == _count_successes(r[1] \o r[2])
               special_effects == _check_special_effects(r[1], r[2], successes)
               total_successes ==
                   _calculate_total_successes(successes, special_effects)
           IN _build_dice_pool_result(attribute, skill, difficulty, hunger,
                                      pool_size, r[1], r[2], successes,
                                      total_successes, special_effects)
           : r \in _roll_dice_pool_dice(pool_size, hunger) }

AttributeDots == -1..MaxAttribute
SkillDots == {0, 1}
Difficulties == {1, 2, 5}
Hungers == -1..MaxHunger

IdleCharacter == [level |-> 1, experience_points |-> 0]

InitPool ==
    /\ args \in [attribute : AttributeDots, skill : SkillDots,
                 difficulty : Difficulties, hunger : Hungers]
    /\ result = NoResult
    /\ character = IdleCharacter
    /\ op = "none"
    /\ ret = FALSE
    /\ signal = FALSE
    /\ rules_cache = EmptyDict

roll_dice_pool ==
    /\ result = NoResult
    /\ result' \in RollDicePoolResults(args.attribute, args.skill,
                                       args.difficulty, args.hunger)
    /\ op' = "roll_dice_pool"
    /\ UNCHANGED <<character, ret, signal, args, rules_cache>>

NextPool == roll_dice_pool

SpecPool == InitPool /\ [][NextPool]_vars

-----------------------------------------------------------------------------
(* rule_engine.py: derived values *)

\* variant: the division rounds toward zero
calculate_ability_modifier_truncating(ability_score) ==
    IF ability_score >= 10 THEN (ability_score - 10) \div 2
    ELSE 0 - ((10 - ability_score) \div 2)

calculate_ability_modifier(ability_score) == (ability_score - 10) \div 2

BaseHpPerLevel(class_name) ==
    CASE class_name = "fighter" -> 10
      [] class_name = "wizard" -> 6
      [] class_name = "rogue" -> 8
      [] class_name = "cleric" -> 8
      [] OTHER -> 8

\* variant: no floor at 1
calculate_hit_points_unfloored(c) ==
    Get(c, "level", 1)
    * (BaseHpPerLevel(Get(c, "class", "fighter"))
       + calculate_ability_modifier(Get(Get(c, "attributes", EmptyDict), "constitution", 10)))

calculate_hit_points(c) ==
    LET level == Get(c, "level", 1)
        constitution == Get(Get(c, "attributes", EmptyDict), "constitution", 10)
        constitution_modifier == calculate_ability_modifier(constitution)
        base_hp_per_level == BaseHpPerLevel(Get(c, "class", "fighter"))
        total_hp == (base_hp_per_level + constitution_modifier)
                    + (level - 1) * (base_hp_per_level + constitution_modifier)
    IN Max(1, total_hp)

XpTable == [l \in 1..10 |-> CASE l = 1 -> 0 [] l = 2 -> 1000 [] l = 3 -> 3000
                              [] l = 4 -> 6000 [] l = 5 -> 10000 [] l = 6 -> 15000
                              [] l = 7 -> 21000 [] l = 8 -> 28000 [] l = 9 -> 36000
                              [] l = 10 -> 45000]

XpPerLevelBeyondTable == 5000

\* variant: the table is skipped
get_experience_requirements_formula(level) == level * XpPerLevelBeyondTable

\* variant: 4000 points a level beyond the table
get_experience_requirements_cheaper(level) ==
    IF level \in DOMAIN XpTable THEN XpTable[level] ELSE level * 4000

get_experience_requirements(level) ==
    IF level \in DOMAIN XpTable THEN XpTable[level] ELSE level * XpPerLevelBeyondTable

HasEnoughXp(current_xp, required_xp) == current_xp >= required_xp

check_level_up(c) ==
    LET current_level == Get(c, "level", 1)
        current_xp == Get(c, "experience_points", 0)
        required_xp == get_experience_requirements(current_level + 1)
    IN HasEnoughXp(current_xp, required_xp)

-----------------------------------------------------------------------------
(* rule_engine.py: the loaded rule tables and get_rule *)

None == [kind |-> "none"]

DictNode(items) == [kind |-> "dict", items |-> items]

BoolNode(b) == [kind |-> "bool", value |-> b]

IntNode(n) == [kind |-> "int", value |-> n]

ListNode(l) == [kind |-> "list", value |-> l]

StrNode(text) == [kind |-> "str", value |-> text]

\* bool(x) of a rule value
Truthy(node) ==
    CASE node.kind = "none" -> FALSE
      [] node.kind = "dict" -> DOMAIN node.items # {}
      [] node.kind = "bool" -> node.value
      [] node.kind = "int" -> node.value # 0
      [] node.kind = "list" -> node.value # <<>>
      [] node.kind = "str" -> node.value # ""

\* node.get(key, default) on a table of rule values
NodeGet(node, key, default) ==
    IF key \in DOMAIN node.items THEN node.items[key] ELSE default

\* the segments of rule_path.split('.'), followed one at a time
RECURSIVE FollowPath(_, _)
FollowPath(current, keys) ==
    IF keys = <<>> THEN current
    ELSE IF current.kind = "dict" /\ Head(keys) \in DOMAIN current.items
         THEN FollowPath(current.items[Head(keys)], Tail(keys))
         ELSE None

\* variant: a path that is not found gives the whole rule set
get_rule_wholeSet(cache, rule_name, rule_path) ==
    IF rule_name \notin DOMAIN cache THEN None
    ELSE IF rule_path = <<>> \/ FollowPath(cache[rule_name], rule_path) = None
    THEN cache[rule_name]
    ELSE FollowPath(cache[rule_name], rule_path)

\* rule_path = <<>> stands for rule_path is None
get_rule(cache, rule_name, rule_path) ==
    IF rule_name \notin DOMAIN cache THEN None
    ELSE IF rule_path = <<>> THEN cache[rule_name]
    ELSE FollowPath(cache[rule_name], rule_path)

-----------------------------------------------------------------------------
(* character_manager.py: CharacterManager *)

_initialize_character_defaults(c) ==
    LET c1 == IF "experience_points" \in DOMAIN c THEN c ELSE Put(c, "experience_points", 0)
    IN IF "level" \in DOMAIN c1 THEN c1 ELSE Put(c1, "level", 1)

\* variant: the parent table is replaced instead of updated
_set_nested_attribute_replace(data, keys, value) ==
    IF Len(keys) = 1 THEN Put(data, keys[1], value)
    ELSE Put(data, keys[1], Put(EmptyDict, keys[2], value))

\* a dotted path is the sequence of its keys
RECURSIVE _set_nested_attribute(_, _, _)
_set_nested_attribute(data, keys, value) ==
    IF Len(keys) = 1 THEN Put(data, keys[1], value)
    ELSE Put(data, keys[1],
             _set_nested_attribute(Get(data, keys[1], EmptyDict), Tail(keys), value))

\* <<character after the call, value returned>>
update_character_attribute(c, attribute_path, value) ==
    <<_set_nested_attribute(c, attribute_path, value), TRUE>>

NewExperience(current_xp, amount) == current_xp + amount

add_experience(c, amount) ==
    <<Put(c, "experience_points", NewExperience(Get(c, "experience_points", 0), amount)), TRUE>>

\* CharacterManager imports datetime at module level; the class and its
\* instances have no attribute of that name.
CharacterManagerHasDatetime == FALSE

-----------------------------------------------------------------------------
(* experience_system.py: ExperienceSystem *)

_apply_attribute_improvement(c, details) ==
    IF Get(details, "attribute", "") = "" THEN <<c, FALSE>>
    ELSE LET attribute_name == details["attribute"]
             current_value == Get(Get(c, "attributes", EmptyDict), attribute_name, 10)
             new_value == current_value + 1
         IN update_character_attribute(c, <<"attributes", attribute_name>>, new_value)

_apply_skill_improvement(c, details) ==
    IF Get(details, "skill", "") = "" THEN <<c, FALSE>>
    ELSE LET skill_name == details["skill"]
             current_value == Get(Get(c, "skills", EmptyDict), skill_name, 0)
             new_value == current_value + 1
         IN update_character_attribute(c, <<"skills", skill_name>>, new_value)

\* the record is appended before the timestamp line raises AttributeError,
\* which the handler turns into False
_apply_ability_gain(c, option, details) ==
    LET ability_data == Get(option, "ability_data", EmptyDict)
        c1 == IF "abilities" \in DOMAIN c THEN c ELSE Put(c, "abilities", <<>>)
        c2 == Put(c1, "abilities",
                  Append(c1["abilities"],
                         [name |-> Get(option, "name", "None"),
                          description |-> Get(ability_data, "description", ""),
                          gained_at |-> Get(c, "level", 1),
                          details |-> ability_data]))
    IN <<c2, CharacterManagerHasDatetime>>

apply_level_up(c, option, details) ==
    LET option_type == Get(option, "type", "None") IN
    CASE option_type = "attribute" -> _apply_attribute_improvement(c, details)
      [] option_type = "skill" -> _apply_skill_improvement(c, details)
      [] option_type = "ability" -> _apply_ability_gain(c, option, details)
      [] OTHER -> <<c, FALSE>>

\* variant: a level is skipped
NewLevel_skip(current_level) == current_level + 2

NewLevel(current_level) == current_level + 1

\* variant: the level-up spends the experience
complete_level_up_spendXp(c) ==
    LET c1 == Put(Put(c, "level", Get(c, "level", 1) + 1), "experience_points", 0)
    IN <<Put(c1, "max_hit_points", calculate_hit_points(c1)), TRUE>>

\* variant: every level-up heals to the new maximum
complete_level_up_fullHeal(c) ==
    LET c1 == Put(c, "level", Get(c, "level", 1) + 1)
        new_hp == calculate_hit_points(c1)
    IN <<Put(Put(c1, "max_hit_points", new_hp), "current_hit_points", new_hp), TRUE>>

\* variant: the new hit points are written to current_hit_points only
complete_level_up_currentOnly(c) ==
    LET c1 == Put(c, "level", Get(c, "level", 1) + 1)
    IN <<Put(c1, "current_hit_points", calculate_hit_points(c1)), TRUE>>

complete_level_up(c) ==
    LET new_level == NewLevel(Get(c, "level", 1))
        r1 == update_character_attribute(c, <<"level">>, new_level)
    IN IF r1[2]
       THEN LET new_hp == calculate_hit_points(r1[1])
                c2 == update_character_attribute(r1[1], <<"max_hit_points">>, new_hp)[1]
                current_hp == Get(c2, "current_hit_points", Get(c2, "max_hit_points", new_hp))
                c3 == IF current_hp = Get(c2, "max_hit_points", new_hp)
                      THEN update_character_attribute(c2, <<"current_hit_points">>, new_hp)[1]
                      ELSE c2
            IN <<c3, TRUE>>
       ELSE <<r1[1], FALSE>>

\* variant: the level-up is completed as soon as the character is eligible
award_experience_autolevel(c, amount) ==
    LET r == add_experience(c, amount)
    IN IF check_level_up(r[1]) THEN <<complete_level_up(r[1])[1], r[2], TRUE>>
       ELSE <<r[1], r[2], FALSE>>

\* <<character after the call, value returned, "ready to level up" logged>>
award_experience(c, amount) ==
    LET r == add_experience(c, amount)
    IN <<r[1], r[2], r[2] /\ check_level_up(r[1])>>

-----------------------------------------------------------------------------
(* The progression state machine: one character, any sequence of calls *)

Templates ==
    { [name |-> "Fighter", class |-> "fighter",
       attributes |-> [constitution |-> 10, strength |-> 11],
       skills |-> [stealth |-> 0],
       max_hit_points |-> 10, current_hit_points |-> 10],
      [name |-> "Wizard", class |-> "wizard",
       attributes |-> [constitution |-> 9],
       abilities |-> <<>>,
       max_hit_points |-> 5, current_hit_points |-> 3] }

\* created from a template, or loaded from a file that holds no leveling keys
InitialCharacters ==
    { _initialize_character_defaults(t) : t \in Templates } \cup { [name |-> "Loaded"] }

Amounts == {-1000, 0, 1000}

AttributeOption ==
    [type |-> "attribute", name |-> "Improve Attribute",
     description |-> "Increase one attribute by 1 point", cost |-> 1000, max_uses |-> 1]

SkillOption ==
    [type |-> "skill", name |-> "Improve Skill",
     description |-> "Increase one skill by 1 rank", cost |-> 500, max_uses |-> 2]

AbilityOption ==
    [type |-> "ability", name |-> "Celerity", description |-> "Supernatural speed",
     cost |-> 1000,
     ability_data |-> [name |-> "Celerity", description |-> "Supernatural speed", level |-> 1]]

UnknownOption == [type |-> "feat", name |-> "Feat"]

Options == {AttributeOption, SkillOption, AbilityOption, UnknownOption}

Details ==
    { EmptyDict, [attribute |-> "constitution"], [skill |-> "stealth"] }

Level(c) == Get(c, "level", 1)

Xp(c) == Get(c, "experience_points", 0)

Scores(c) ==
    { Get(c, "attributes", EmptyDict)[k] : k \in DOMAIN Get(c, "attributes", EmptyDict) }

SkillRanks(c) ==
    { Get(c, "skills", EmptyDict)[k] : k \in DOMAIN Get(c, "skills", EmptyDict) }

\* the bounds of the model, as a predicate on the character a call leaves
WithinBounds(c) ==
    /\ Level(c) <= MaxLevel
    /\ Xp(c) <= MaxXP /\ Xp(c) >= -MaxDebt
    /\ \A v \in Scores(c) : v <= MaxScore
    /\ \A v \in SkillRanks(c) : v <= MaxRank
    /\ Len(Get(c, "abilities", <<>>)) <= MaxAbilities

Init ==
    /\ character \in InitialCharacters
    /\ op = "none"
    /\ ret = FALSE
    /\ signal = FALSE
    /\ args = EmptyDict
    /\ result = NoResult
    /\ rules_cache = EmptyDict

AwardExperience ==
    \E amount \in Amounts :
        LET r == award_experience(character, amount) IN
        /\ WithinBounds(r[1])
        /\ character' = r[1]
        /\ ret' = r[2]
        /\ signal' = r[3]
        /\ op' = "award_experience"
        /\ args' = [amount |-> amount]
        /\ UNCHANGED <<result, rules_cache>>

ApplyLevelUp ==
    \E option \in Options, details \in Details :
        LET r == apply_level_up(character, option, details) IN
        /\ WithinBounds(r[1])
        /\ character' = r[1]
        /\ ret' = r[2]
        /\ op' = "apply_level_up"
        /\ args' = [option |-> option, details |-> details]
        /\ UNCHANGED <<signal, result, rules_cache>>

CompleteLevelUp ==
    LET r == complete_level_up(character) IN
    /\ WithinBounds(r[1])
    /\ character' = r[1]
    /\ ret' = r[2]
    /\ op' = "complete_level_up"
    /\ args' = EmptyDict
    /\ UNCHANGED <<signal, result, rules_cache>>

Next == AwardExperience \/ ApplyLevelUp \/ CompleteLevelUp

Spec == Init /\ [][Next]_vars

-----------------------------------------------------------------------------
(* experience_system.py: enumerating the level-up options *)

AttributeLevelStep == 4

\* variant: the attribute improvement is offered at every level
_get_default_level_up_options_always(level) ==
    <<[type |-> "attribute", name |-> "Improve Attribute",
       description |-> "Increase one attribute by 1 point", cost |-> 1000, max_uses |-> 1],
      [type |-> "skill", name |-> "Improve Skill",
       description |-> "Increase one skill by 1 rank", cost |-> 500, max_uses |-> 2]>>

_get_default_level_up_options(level) ==
    (IF level % AttributeLevelStep = 0
     THEN <<[type |-> "attribute", name |-> "Improve Attribute",
             description |-> "Increase one attribute by 1 point",
             cost |-> 1000, max_uses |-> 1]>>
     ELSE <<>>)
    \o <<[type |-> "skill", name |-> "Improve Skill",
          description |-> "Increase one skill by 1 rank", cost |-> 500, max_uses |-> 2]>>

AbilityOptionOf(ability) ==
    [type |-> "ability", name |-> Get(ability, "name", "New Ability"),
     description |-> Get(ability, "description", "A new ability"),
     cost |-> Get(ability, "cost", 1000), ability_data |-> ability]

get_level_up_options(c, cache) ==
    LET current_level == Get(c, "level", 1)
        class_name == Get(c, "class", "fighter")
        level_up_rules == get_rule(cache, "character_creation", <<"leveling", class_name>>)
    IN IF ~Truthy(level_up_rules) THEN _get_default_level_up_options(current_level)
       ELSE IF level_up_rules.kind # "dict" THEN <<>>
       ELSE LET flag(k) == Truthy(NodeGet(level_up_rules, k, BoolNode(FALSE)))
                num(k, default) == NodeGet(level_up_rules, k, IntNode(default)).value
                known == SelectSeq(NodeGet(level_up_rules, "abilities", ListNode(<<>>)).value,
                                   LAMBDA a : Get(a, "level", 1) <= current_level)
            IN (IF flag("attribute_improvements")
                THEN <<[type |-> "attribute", name |-> "Improve Attribute",
                        description |-> "Increase one attribute by 1 point",
                        cost |-> num("attribute_cost", 1000),
                        max_uses |-> num("max_attribute_improvements", 1)]>>
                ELSE <<>>)
               \o (IF flag("skill_improvements")
                   THEN <<[type |-> "skill", name |-> "Improve Skill",
                           description |-> "Increase one skill by 1 rank",
                           cost |-> num("skill_cost", 500),
                           max_uses |-> num("max_skill_improvements", 2)]>>
                   ELSE <<>>)
               \o (IF flag("new_abilities")
                   THEN [i \in 1..Len(known) |-> AbilityOptionOf(known[i])]
                   ELSE <<>>)

FighterLeveling ==
    DictNode([attribute_improvements |-> BoolNode(TRUE), attribute_cost |-> IntNode(800),
              skill_improvements |-> BoolNode(FALSE), new_abilities |-> BoolNode(TRUE),
              abilities |-> ListNode(<<[name |-> "Celerity", level |-> 2],
                                       [name |-> "Fortitude", description |-> "Resilience",
                                        cost |-> 500]>>)])

CharacterCreation(leveling) == [character_creation |-> DictNode([leveling |-> leveling])]

\* no rules directory; a rule set without leveling; leveling that is no table;
\* an empty entry for the class; rules for the fighter class
RuleTables ==
    { EmptyDict,
      [character_creation |-> DictNode([skills |-> DictNode(EmptyDict)])],
      CharacterCreation(IntNode(5)),
      CharacterCreation(DictNode([fighter |-> DictNode(EmptyDict)])),
      CharacterCreation(DictNode([fighter |-> FighterLeveling])) }

OptionCharacters ==
    { [name |-> "Loaded", attributes |-> [constitution |-> 9]] }
    \cup [name : {"Fighter"}, level : 0..MaxOptionLevel,
          experience_points : {0}, attributes : {[constitution |-> 9]}]
    \cup [name : {"Wizard"}, class : {"wizard"}, level : 0..MaxOptionLevel,
          experience_points : {0}, attributes : {[constitution |-> 9]}]

InitOptions ==
    /\ character \in OptionCharacters
    /\ rules_cache \in RuleTables
    /\ op = "none"
    /\ ret = FALSE
    /\ signal = FALSE
    /\ args = EmptyDict
    /\ result = NoResult

GetLevelUpOptions ==
    /\ result' = [options |-> get_level_up_options(character, rules_cache)]
    /\ op' = "get_level_up_options"
    /\ args' = EmptyDict
    /\ UNCHANGED <<character, ret, signal, rules_cache>>

\* the bounds of the model on the tables an applied option writes
WithinOptionBounds(c) ==
    /\ \A v \in Scores(c) : v <= MaxScore
    /\ \A v \in SkillRanks(c) : v <= MaxRank
    /\ Len(Get(c, "abilities", <<>>)) <= MaxAbilities

\* the caller applies one of the options it was given
ApplyOffered ==
    /\ "options" \in DOMAIN result
    /\ \E i \in DOMAIN result.options, details \in Details :
           LET r == apply_level_up(character, result.options[i], details) IN
           /\ WithinOptionBounds(r[1])
           /\ character' = r[1]
           /\ ret' = r[2]
           /\ op' = "apply_level_up"
           /\ args' = [option |-> result.options[i], details |-> details]
           /\ UNCHANGED <<signal, result, rules_cache>>

NextOptions == GetLevelUpOptions \/ ApplyOffered

SpecOptions == InitOptions /\ [][NextOptions]_vars

-----------------------------------------------------------------------------
(* dice_roller.py: roll_dice on a dice expression.  A text is the sequence  *)
(* of its characters.                                                      *)

DigitChars == <<"0", "1", "2", "3", "4", "5", "6", "7", "8", "9">>

IsDigit(ch) == \E i \in DOMAIN DigitChars : DigitChars[i] = ch

DigitValue(ch) == (CHOOSE i \in DOMAIN DigitChars : DigitChars[i] = ch) - 1

RECURSIVE SumSeq(_)
SumSeq(rolls) == IF rolls = <<>> THEN 0 ELSE Head(rolls) + SumSeq(Tail(rolls))

\* expression.replace(" ", "")
StripSpaces(text) == SelectSeq(text, LAMBDA ch : ch # " ")

\* the length of the longest run of digits that starts at position i: \d+ is greedy
RECURSIVE DigitRun(_, _)
DigitRun(text, i) ==
    IF i <= Len(text) /\ IsDigit(text[i]) THEN 1 + DigitRun(text, i + 1) ELSE 0

\* int() of a run of digits
RECURSIVE ParseInt(_)
ParseInt(digits) ==
    IF digits = <<>> THEN 0
    ELSE 10 * ParseInt(SubSeq(digits, 1, Len(digits) - 1)) + DigitValue(digits[Len(digits)])

\* variant: the sign of the modifier is dropped
SignedInt_unsigned(text) == ParseInt(Tail(text))

\* int() of a sign followed by digits
SignedInt(text) ==
    IF Head(text) = "-" THEN 0 - ParseInt(Tail(text)) ELSE ParseInt(Tail(text))

\* re.match(r"(\d+)d(\d+)([+-]\d+)?", text): the groups matched at the start of
\* the text, whatever follows them
Match(text) ==
    LET n1 == DigitRun(text, 1)
        n2 == DigitRun(text, n1 + 2)
        p == n1 + 2 + n2
        n3 == IF p <= Len(text) /\ text[p] \in {"+", "-"} THEN DigitRun(text, p + 1) ELSE 0
    IN IF n1 >= 1 /\ n1 + 1 <= Len(text) /\ text[n1 + 1] = "d" /\ n2 >= 1
       THEN [matched |-> TRUE,
             group1 |-> SubSeq(text, 1, n1),
             group2 |-> SubSeq(text, n1 + 2, n1 + 1 + n2),
             group3 |-> IF n3 >= 1 THEN SubSeq(text, p, p + n3) ELSE <<>>]
       ELSE [matched |-> FALSE]

\* raised |-> TRUE stands for the ValueError
_parse_dice_expression(expression) ==
    LET stripped == StripSpaces(expression)
        match == Match(stripped)
    IN IF ~match.matched
       THEN [raised |-> TRUE, message |-> <<"Invalid dice expression: ", stripped>>]
       ELSE [raised |-> FALSE,
             num_dice |-> ParseInt(match.group1),
             dice_size |-> ParseInt(match.group2),
             modifier |-> IF match.group3 # <<>> THEN SignedInt(match.group3) ELSE 0]

\* random.randint(1, dice_size) raises for dice_size < 1, when a die is rolled at all
RollRaises(parsed) == parsed.num_dice > 0 /\ parsed.dice_size < 1

_roll_legacy_dice(parsed) == [1..parsed.num_dice -> 1..parsed.dice_size]

RollDiceResults(expression) ==
    LET parsed == _parse_dice_expression(expression) IN
    IF parsed.raised
    THEN {[expression |-> expression, error |-> parsed.message, total |-> 0]}
    ELSE IF RollRaises(parsed)
    THEN {[expression |-> expression, error |-> <<"empty range for randrange()">>, total |-> 0]}
    ELSE {[expression |-> expression,
           num_dice |-> parsed.num_dice,
           dice_size |-> parsed.dice_size,
           modifier |-> parsed.modifier,
           individual_rolls |-> dice_results,
           total |-> SumSeq(dice_results) + parsed.modifier,
           success |-> None] : dice_results \in _roll_legacy_dice(parsed)}

\* the decimal numeral of n >= 0
RECURSIVE Numeral(_)
Numeral(n) ==
    IF n < 10 THEN <<DigitChars[n + 1]>>
    ELSE Numeral(n \div 10) \o <<DigitChars[(n % 10) + 1]>>

\* the texts a caller passes: a count, a separator, a number of sides, a modifier
\* and what follows it, each of them possibly missing or wrong
CountTexts == {<<>>, <<"0", "2">>} \cup {Numeral(n) : n \in 0..MaxCount}

SeparatorTexts == {<<"d">>, <<"x">>}

SidesTexts == {<<>>} \cup {Numeral(n) : n \in 0..MaxSides}

ModifierTexts ==
    {<<>>, <<"+">>}
    \cup {<<"+">> \o Numeral(n) : n \in 0..MaxModifier}
    \cup {<<"-">> \o Numeral(n) : n \in 0..MaxModifier}

TrailingTexts == {<<>>, <<"x">>, <<" ">>}

Expressions ==
    {<<"b", "a", "d">>}
    \cup {c \o d \o s \o m \o t : c \in CountTexts, d \in SeparatorTexts, s \in SidesTexts,
                                  m \in ModifierTexts, t \in TrailingTexts}

InitExpr ==
    /\ character = IdleCharacter
    /\ rules_cache = EmptyDict
    /\ op = "none"
    /\ ret = FALSE
    /\ signal = FALSE
    /\ args \in [expression : Expressions]
    /\ result = NoResult

roll_dice ==
    /\ result' \in RollDiceResults(args.expression)
    /\ op' = "roll_dice"
    /\ UNCHANGED <<character, ret, signal, args, rules_cache>>

NextExpr == roll_dice

SpecExpr == InitExpr /\ [][NextExpr]_vars

-----------------------------------------------------------------------------
(* rule_engine.py: resolve_combat_attack *)

\* str(n) inside an f-string
Str(n) == IF n < 0 THEN <<"-">> \o Numeral(0 - n) ELSE Numeral(n)

\* a dict is true when it has a key: None and {} are both false
Given(d) == DOMAIN d # {}

calculate_armor_class(c) ==
    LET dexterity == Get(Get(c, "attributes", EmptyDict), "dexterity", 10)
        armor == Get(Get(c, "equipment", EmptyDict), "armor", EmptyDict)
        shield == Get(Get(c, "equipment", EmptyDict), "shield", EmptyDict)
    IN 10 + calculate_ability_modifier(dexterity)
       + (IF Given(armor) THEN Get(armor, "ac_bonus", 0) ELSE 0)
       + (IF Given(shield) THEN Get(shield, "ac_bonus", 0) ELSE 0)
       + Get(c, "natural_armor", 0)
       + Get(Get(c, "ac_bonuses", EmptyDict), "misc", 0)

\* (level - 1) // 4 + 1
BaseAttackBonus(level) == ((level - 1) \div 4) + 1

IsRanged(weapon) == Given(weapon) /\ Get(weapon, "type", "") = "ranged"

AttackAbilityModifier(attacker, weapon) ==
    calculate_ability_modifier(
        Get(Get(attacker, "attributes", EmptyDict),
            IF IsRanged(weapon) THEN "dexterity" ELSE "strength", 10))

AttackBonus(attacker, weapon) ==
    BaseAttackBonus(Get(attacker, "level", 1))
    + AttackAbilityModifier(attacker, weapon)
    + (IF Given(weapon) THEN Get(weapon, "attack_bonus", 0) ELSE 0)

\* f"1d20+{attack_bonus}"
AttackExpression(attack_bonus) == <<"1", "d", "2", "0", "+">> \o Str(attack_bonus)

\* variant: a critical hit is read off the modified total
IsCriticalHit_total(attack_roll) == attack_roll.total >= 20

IsCriticalHit(attack_roll) == attack_roll.individual_rolls[1] = 20

DamageDice(weapon) ==
    IF Given(weapon) THEN Get(weapon, "damage", <<"1", "d", "4">>) ELSE <<"1", "d", "3">>

DamageBonus(attacker, weapon) ==
    IF IsRanged(weapon) THEN 0 ELSE AttackAbilityModifier(attacker, weapon)

roll_damage(damage_dice) ==
    {r @@ [damage_type |-> "physical"] : r \in RollDiceResults(damage_dice)}

WithBonus(damage_roll, damage_bonus) ==
    [damage_roll EXCEPT !.total = @ + damage_bonus]

ResolveCombatAttackResults(attacker, target, weapon) ==
    LET attack_bonus == AttackBonus(attacker, weapon)
        target_ac == calculate_armor_class(target)
        Outcome(attack_roll, damage) ==
            [attack_roll |-> attack_roll,
             attack_bonus |-> attack_bonus,
             target_ac |-> target_ac,
             hit |-> attack_roll.total >= target_ac,
             critical_hit |-> IsCriticalHit(attack_roll),
             damage |-> damage]
    IN UNION {IF attack_roll.total >= target_ac
              THEN {Outcome(attack_roll, WithBonus(damage_roll, DamageBonus(attacker, weapon))) :
                        damage_roll \in roll_damage(DamageDice(weapon))}
              ELSE {Outcome(attack_roll, None)} :
                  attack_roll \in RollDiceResults(AttackExpression(attack_bonus))}

AttackerScores == {3, 8, 14}

Attackers ==
    {[name |-> "Loaded"]}
    \cup [level : 1..MaxAttackerLevel,
          attributes : [strength : AttackerScores, dexterity : {4, 16}]]

Targets ==
    { EmptyDict,
      [attributes |-> [dexterity |-> 1]],
      [attributes |-> [dexterity |-> 14],
       equipment |-> [armor |-> [ac_bonus |-> 5], shield |-> [ac_bonus |-> 2]],
       natural_armor |-> 1, ac_bonuses |-> [misc |-> 1]] }

\* no weapon; a weapon that names nothing but its kind; a sword; a bow
Weapons ==
    { EmptyDict,
      [type |-> "melee"],
      [type |-> "melee", damage |-> <<"1", "d", "6">>, attack_bonus |-> 1],
      [type |-> "ranged", damage |-> <<"1", "d", "2", "+", "1">>] }

InitCombat ==
    /\ character = IdleCharacter
    /\ rules_cache = EmptyDict
    /\ op = "none"
    /\ ret = FALSE
    /\ signal = FALSE
    /\ args \in [attacker : Attackers, target : Targets, weapon : Weapons]
    /\ result = NoResult

\* one attack is resolved in a behaviour
resolve_combat_attack ==
    /\ op = "none"
    /\ result' \in ResolveCombatAttackResults(args.attacker, args.target, args.weapon)
    /\ op' = "resolve_combat_attack"
    /\ UNCHANGED <<character, ret, signal, args, rules_cache>>

NextCombat == resolve_combat_attack

SpecCombat == InitCombat /\ [][NextCombat]_vars

-----------------------------------------------------------------------------
(* d20 checks and the rouse check: dice_roller.py roll_ability_check,       *)
(* roll_skill_check, roll_rouse_check; rule_engine.py calculate_skill_bonus, *)
(* resolve_ability_check, resolve_skill_check                              *)

D20 == 1..20

\* (ability_score - 10) // 2 as roll_ability_check computes it
InlineAbilityModifier(ability_score) == (ability_score - 10) \div 2

roll_ability_check(ability_score, difficulty, d20_roll) ==
    LET ability_modifier == InlineAbilityModifier(ability_score)
        total == d20_roll + ability_modifier
    IN [expression |-> <<"1", "d", "2", "0", "+">> \o Str(ability_modifier),
        d20_roll |-> d20_roll,
        ability_modifier |-> ability_modifier,
        total |-> total,
        difficulty |-> difficulty,
        success |-> total >= difficulty,
        critical_success |-> d20_roll = 20,
        critical_failure |-> d20_roll = 1]

roll_skill_check(skill_bonus, difficulty, d20_roll) ==
    LET total == d20_roll + skill_bonus
    IN [expression |-> <<"1", "d", "2", "0", "+">> \o Str(skill_bonus),
        d20_roll |-> d20_roll,
        skill_bonus |-> skill_bonus,
        total |-> total,
        difficulty |-> difficulty,
        success |-> total >= difficulty,
        critical_success |-> d20_roll = 20,
        critical_failure |-> d20_roll = 1]

calculate_skill_bonus(c, cache, skill_name) ==
    LET skill_info == get_rule(cache, "character_creation", <<"skills", skill_name>>)
    IN IF ~Truthy(skill_info) \/ skill_info.kind # "dict" THEN 0
       ELSE LET ability_name == NodeGet(skill_info, "ability", StrNode("intelligence")).value
                ability_score == Get(Get(c, "attributes", EmptyDict), ability_name, 10)
            IN calculate_ability_modifier(ability_score)
               + Get(Get(c, "skills", EmptyDict), skill_name, 0)
               + Get(Get(c, "skill_bonuses", EmptyDict), skill_name, 0)

\* variant: the second roll is always kept
KeepHigher_second(roll1, roll2) == roll2

KeepHigher(roll1, roll2) == IF roll1.total >= roll2.total THEN roll1 ELSE roll2

KeepLower(roll1, roll2) == IF roll1.total <= roll2.total THEN roll1 ELSE roll2

\* the branch on advantage and disadvantage; rolls holds the rolls made, in order
Resolved(rolls, advantage, disadvantage) ==
    IF advantage /\ ~disadvantage
    THEN KeepHigher(rolls[1], rolls[2]) @@ [advantage_used |-> TRUE]
    ELSE IF disadvantage /\ ~advantage
    THEN KeepLower(rolls[1], rolls[2]) @@ [disadvantage_used |-> TRUE]
    ELSE rolls[1]

\* the number of rolls the branch makes
RollsMade(advantage, disadvantage) == IF advantage = disadvantage THEN 1 ELSE 2

resolve_ability_check(c, ability_name, difficulty, advantage, disadvantage, faces) ==
    LET ability_score == Get(Get(c, "attributes", EmptyDict), ability_name, 10)
        rolls == [i \in DOMAIN faces |-> roll_ability_check(ability_score, difficulty, faces[i])]
    IN [ability_name |-> ability_name,
        ability_score |-> ability_score,
        ability_modifier |-> calculate_ability_modifier(ability_score)]
       @@ Resolved(rolls, advantage, disadvantage)

resolve_skill_check(c, cache, skill_name, difficulty, advantage, disadvantage, faces) ==
    LET skill_bonus == calculate_skill_bonus(c, cache, skill_name)
        rolls == [i \in DOMAIN faces |-> roll_skill_check(skill_bonus, difficulty, faces[i])]
    IN [skill_name |-> skill_name, skill_bonus |-> skill_bonus]
       @@ Resolved(rolls, advantage, disadvantage)

\* variant: a 6 fails
RouseSuccess_strict(roll) == roll > 6

RouseSuccess(roll) == roll >= 6

roll_rouse_check(hunger, roll) ==
    LET success == RouseSuccess(roll)
        hunger_change == IF success THEN 0 ELSE 1
    IN [roll |-> roll, success |-> success, hunger_change |-> hunger_change,
        new_hunger |-> hunger + hunger_change]

AbilityScores == (0 - 3)..MaxAbilityScore

CheckDifficulties == {10, 15}

Checkers ==
    { [name |-> "Loaded"],
      [name |-> "Rogue", attributes |-> [strength |-> 7, dexterity |-> 14],
       skills |-> [stealth |-> 2], skill_bonuses |-> [stealth |-> 1]] }

SkillRules ==
    { EmptyDict,
      [character_creation |->
           DictNode([skills |-> DictNode([stealth |-> DictNode([ability |-> StrNode("dexterity")]),
                                          lore |-> DictNode([name |-> StrNode("Lore")])])])] }

InitChecks ==
    /\ character \in Checkers
    /\ rules_cache \in SkillRules
    /\ op = "none"
    /\ ret = FALSE
    /\ signal = FALSE
    /\ args = EmptyDict
    /\ result = NoResult

CalculateAbilityModifier ==
    /\ op = "none"
    /\ \E score \in AbilityScores :
           /\ args' = [score |-> score]
           /\ result' = [value |-> calculate_ability_modifier(score)]
    /\ op' = "calculate_ability_modifier"
    /\ UNCHANGED <<character, ret, signal, rules_cache>>

RollAbilityCheck ==
    /\ op = "none"
    /\ \E score \in AbilityScores, d20_roll \in D20 :
           /\ args' = [score |-> score, difficulty |-> 10]
           /\ result' = roll_ability_check(score, 10, d20_roll)
    /\ op' = "roll_ability_check"
    /\ UNCHANGED <<character, ret, signal, rules_cache>>

ResolveAbilityCheck ==
    /\ op = "none"
    /\ \E ability_name \in {"strength", "wisdom"}, difficulty \in CheckDifficulties,
          advantage \in BOOLEAN, disadvantage \in BOOLEAN :
         \E faces \in [1..RollsMade(advantage, disadvantage) -> D20] :
           /\ args' = [name |-> ability_name, difficulty |-> difficulty,
                       advantage |-> advantage, disadvantage |-> disadvantage, faces |-> faces]
           /\ result' = resolve_ability_check(character, ability_name, difficulty,
                                              advantage, disadvantage, faces)
    /\ op' = "resolve_ability_check"
    /\ UNCHANGED <<character, ret, signal, rules_cache>>

ResolveSkillCheck ==
    /\ op = "none"
    /\ \E skill_name \in {"stealth", "lore"}, difficulty \in CheckDifficulties,
          advantage \in BOOLEAN, disadvantage \in BOOLEAN :
         \E faces \in [1..RollsMade(advantage, disadvantage) -> D20] :
           /\ args' = [name |-> skill_name, difficulty |-> difficulty,
                       advantage |-> advantage, disadvantage |-> disadvantage, faces |-> faces]
           /\ result' = resolve_skill_check(character, rules_cache, skill_name, difficulty,
                                            advantage, disadvantage, faces)
    /\ op' = "resolve_skill_check"
    /\ UNCHANGED <<character, ret, signal, rules_cache>>

RollRouseCheck ==
    /\ op = "none"
    /\ \E hunger \in Hungers, roll \in Faces :
           /\ args' = [hunger |-> hunger]
           /\ result' = roll_rouse_check(hunger, roll)
    /\ op' = "roll_rouse_check"
    /\ UNCHANGED <<character, ret, signal, rules_cache>>

NextChecks ==
    \/ CalculateAbilityModifier
    \/ RollAbilityCheck
    \/ ResolveAbilityCheck
    \/ ResolveSkillCheck
    \/ RollRouseCheck

SpecChecks == InitChecks /\ [][NextChecks]_vars

-----------------------------------------------------------------------------
(* The lookups and formulas of the rule engine, each called on its own:    *)
(* calculate_hit_points, get_rule, and experience_system.py                *)
(* get_experience_progress                                                 *)

\* xp_gained / xp_needed * 100 is kept as the fraction it is computed from
get_experience_progress(c) ==
    LET current_level == Get(c, "level", 1)
        current_xp == Get(c, "experience_points", 0)
        current_level_xp == get_experience_requirements(current_level)
        next_level_xp == get_experience_requirements(current_level + 1)
        xp_needed == next_level_xp - current_level_xp
        xp_gained == current_xp - current_level_xp
    IN [current_level |-> current_level,
        current_xp |-> current_xp,
        current_level_xp |-> current_level_xp,
        next_level_xp |-> next_level_xp,
        xp_needed |-> xp_needed,
        xp_gained |-> xp_gained,
        progress_percentage |->
            IF xp_needed > 0 THEN [times100 |-> xp_gained, over |-> xp_needed]
            ELSE [times100 |-> 1, over |-> 1],
        can_level_up |-> check_level_up(c)]

ClassNames == {"fighter", "wizard", "rogue", "cleric", "bard"}

Constitutions == {0 - 4, 1, 9, 10, 18}

RuleCharacters ==
    { [name |-> "Loaded"], [name |-> "Loaded", level |-> 3, experience_points |-> 2000] }
    \cup [class : ClassNames, level : (0 - 1)..MaxCheckLevel,
          experience_points : {50000}, attributes : [constitution : Constitutions]]

RuleNames == {"character_creation", "combat"}

\* dotted paths, as their segments: into the leveling table and past a number
\* in it, to a class and a segment that are not there, and the empty segment
FullPaths ==
    { <<"leveling", "fighter", "attribute_cost", "amount", "unit">>,
      <<"leveling", "wizard", "attribute_cost", "amount", "unit">>,
      <<"skills", "stealth", "ability", "name", "unit">>,
      <<"", "leveling", "fighter", "abilities", "unit">> }

\* the paths of at most n segments; <<>> stands for no path
PathsUpTo(n) == {SubSeq(p, 1, k) : p \in FullPaths, k \in 0..Min(n, 5)}

\* a character under an engine without rules, or the rule tables by themselves
InitRules ==
    /\ \/ character \in RuleCharacters /\ rules_cache = EmptyDict
       \/ character = IdleCharacter /\ rules_cache \in RuleTables \cup SkillRules
    /\ op = "none"
    /\ ret = FALSE
    /\ signal = FALSE
    /\ args = EmptyDict
    /\ result = NoResult

CalculateHitPoints ==
    /\ op = "none"
    /\ result' = [value |-> calculate_hit_points(character)]
    /\ op' = "calculate_hit_points"
    /\ UNCHANGED <<character, ret, signal, args, rules_cache>>

GetExperienceProgress ==
    /\ op = "none"
    /\ result' = get_experience_progress(character)
    /\ op' = "get_experience_progress"
    /\ UNCHANGED <<character, ret, signal, args, rules_cache>>

\* the lookup may be repeated, with the same or other arguments
GetRule ==
    /\ op \in {"none", "get_rule"}
    /\ \E rule_name \in RuleNames, rule_path \in PathsUpTo(MaxPathLen) :
           /\ args' = [rule_name |-> rule_name, rule_path |-> rule_path]
           /\ result' = [value |-> get_rule(rules_cache, rule_name, rule_path)]
    /\ op' = "get_rule"
    /\ UNCHANGED <<character, ret, signal, rules_cache>>

NextRules == CalculateHitPoints \/ GetExperienceProgress \/ GetRule

SpecRules == InitRules /\ [][NextRules]_vars

-----------------------------------------------------------------------------
(* check_level_up as a function of the character it is given *)

XpSamples ==
    { t + d : t \in {0, 1000, 3000, 6000, 10000, 15000, 21000, 28000, 36000, 45000}
                   \cup { 5000 * l : l \in 11..(MaxCheckLevel + 1) },
              d \in {-1, 0, 1} }

InitCheck ==
    /\ character \in [level : 1..MaxCheckLevel, experience_points : XpSamples]
                     \cup { [name |-> "Loaded"], [name |-> "Loaded", experience_points |-> 1000] }
    /\ op = "none"
    /\ ret = FALSE
    /\ signal = FALSE
    /\ args = EmptyDict
    /\ result = NoResult
    /\ rules_cache = EmptyDict

CheckLevelUp ==
    /\ op = "none"
    /\ ret' = check_level_up(character)
    /\ op' = "check_level_up"
    /\ UNCHANGED <<character, signal, args, result, rules_cache>>

NextCheck == CheckLevelUp

SpecCheck == InitCheck /\ [][NextCheck]_vars

-----------------------------------------------------------------------------
(* Properties of roll_dice_pool, stated over the returned result *)

Rolled == result # NoResult

IsError == Rolled /\ "error" \in DOMAIN result

PoolSize == args.attribute + args.skill

RolledNormal == IF "normal_rolls" \in DOMAIN result THEN result.normal_rolls ELSE <<>>

RolledHunger == IF "hunger_rolls" \in DOMAIN result THEN result.hunger_rolls ELSE <<>>

RolledDice == RolledNormal \o RolledHunger

NumShowing(rolls, lo, hi) == Cardinality({i \in DOMAIN rolls : rolls[i] >= lo /\ rolls[i] <= hi})

\* C1: with attribute + skill > 0, total_successes is 4 whenever critical is
\* true and is the raw success count (successes) otherwise.
C1_TotalSuccesses ==
    (Rolled /\ PoolSize > 0) =>
        result.total_successes = (IF result.critical THEN 4 ELSE result.successes)

C1_Witness ==
    /\ Rolled /\ PoolSize > 0
    /\ result.critical /\ result.successes = 6 /\ result.total_successes = 4

\* C2: critical is true exactly when at least two dice of either category
\* show 10, and messy_critical is true exactly when critical is true and at
\* least one hunger die was rolled; messy_critical is never true while
\* critical is false.
C2_MessyCritical ==
    Rolled =>
        /\ result.critical <=> (NumShowing(RolledDice, 10, 10) >= 2)
        /\ result.messy_critical <=> (result.critical /\ Len(RolledHunger) >= 1)
        /\ result.messy_critical => result.critical

C2_Witness ==
    /\ Rolled /\ result.messy_critical
    /\ NumShowing(RolledNormal, 10, 10) = 1 /\ NumShowing(RolledHunger, 10, 10) = 1

\* C3: bestial_failure is true exactly when total_successes is 0 and at
\* least one hunger die shows 1; with hunger = 0 it is always false.
C3_BestialFailure ==
    Rolled =>
        /\ result.bestial_failure <=>
               (result.total_successes = 0 /\ NumShowing(RolledHunger, 1, 1) >= 1)
        /\ (args.hunger = 0 => ~result.bestial_failure)

C3_Witness ==
    /\ Rolled /\ result.bestial_failure
    /\ Len(RolledNormal) >= 1 /\ NumShowing(RolledHunger, 1, 1) >= 1

\* C4: the raw success count is the number of dice showing 6 or more plus
\* the number of dice showing exactly 10, counted alike over normal and
\* hunger dice, and success is true exactly when total_successes >= difficulty.
C4_SuccessCount ==
    (Rolled /\ ~IsError) =>
        /\ result.successes =
               NumShowing(RolledNormal, 6, 10) + NumShowing(RolledNormal, 10, 10)
               + NumShowing(RolledHunger, 6, 10) + NumShowing(RolledHunger, 10, 10)
        /\ result.success <=> (result.total_successes >= args.difficulty)

C4_Witness ==
    /\ Rolled /\ ~IsError
    /\ NumShowing(RolledNormal, 6, 9) = 1 /\ NumShowing(RolledHunger, 10, 10) = 1
    /\ result.successes = 3 /\ result.success /\ args.difficulty = 2

\* C5: with attribute + skill <= 0 no dice are rolled and the result carries
\* the invalid-pool error flag, successes 0, total_successes 0 and critical,
\* messy_critical and bestial_failure all false.
C5_InvalidPool ==
    (Rolled /\ PoolSize <= 0) =>
        /\ IsError
        /\ "normal_rolls" \notin DOMAIN result
        /\ "hunger_rolls" \notin DOMAIN result
        /\ "all_rolls" \notin DOMAIN result
        /\ result.successes = 0 /\ result.total_successes = 0
        /\ ~result.critical /\ ~result.messy_critical /\ ~result.bestial_failure

C5_Witness == Rolled /\ PoolSize = 0 /\ IsError /\ args.hunger > 0

\* C6 as stated: with hunger greater than the pool size (attribute + skill > 0)
\* the result is the flagged (error) result.
C6_HungerOverPoolFlagged ==
    (Rolled /\ PoolSize > 0 /\ args.hunger > PoolSize) => IsError

\* C6 as amended: with hunger greater than the pool size (attribute + skill > 0)
\* the call returns an unflagged normal result in which hunger is clamped to
\* the pool size: every die of the pool is a hunger die and none is normal.
C6_HungerOverPoolClamped ==
    (Rolled /\ PoolSize > 0 /\ args.hunger > PoolSize) =>
        /\ ~IsError
        /\ result.pool_size = PoolSize
        /\ Len(result.hunger_rolls) = PoolSize
        /\ Len(result.normal_rolls) = 0

C6_Witness ==
    /\ Rolled /\ PoolSize = 2 /\ args.hunger = 4
    /\ Len(RolledHunger) = 2 /\ result.success

-----------------------------------------------------------------------------
(* Properties of the experience table and of the progression operations *)

Threshold(l) ==
    CASE l = 1 -> 0 [] l = 2 -> 1000 [] l = 3 -> 3000 [] l = 4 -> 6000
      [] l = 5 -> 10000 [] l = 6 -> 15000 [] l = 7 -> 21000 [] l = 8 -> 28000
      [] l = 9 -> 36000 [] l = 10 -> 45000 [] OTHER -> l * 5000

\* C7: check_level_up is true exactly when experience_points >=
\* threshold(level + 1), threshold being the fixed table for levels 1-10 and
\* level * 5000 beyond it; a level-1 character is eligible at 1000 XP and
\* not at 999 XP.
C7_CheckLevelUp ==
    op = "check_level_up" =>
        /\ ret <=> (Xp(character) >= Threshold(Level(character) + 1))
        /\ (Level(character) = 1 /\ Xp(character) = 1000) => ret
        /\ (Level(character) = 1 /\ Xp(character) = 999) => ~ret

C7_Witness ==
    /\ op = "check_level_up" /\ ret
    /\ Level(character) = 9 /\ Xp(character) = 45000

\* C8: award_experience adds exactly amount to experience_points and never
\* changes level, even when the new total reaches or passes the threshold of
\* the next level: eligibility is signalled, the level is not advanced.
C8_AwardExperience ==
    [][op' = "award_experience" =>
          /\ ret'
          /\ Xp(character') = Xp(character) + args'.amount
          /\ Level(character') = Level(character)
          /\ ("level" \in DOMAIN character') = ("level" \in DOMAIN character)
          /\ signal' <=> (Xp(character') >= Threshold(Level(character') + 1))]_vars

C8_Witness ==
    /\ op = "award_experience" /\ args.amount = 1000 /\ signal
    /\ Level(character) = 1 /\ Xp(character) = 2000

\* C9: across any sequence of award_experience (with whatever integer amount
\* the caller passes), apply_level_up and complete_level_up calls,
\* experience_points never falls below its value in the preceding state.
C9_ExperienceNeverDecreases == [][Xp(character') >= Xp(character)]_vars

\* C10: level is changed only by complete_level_up, which raises it by
\* exactly 1 per successful call; award_experience and apply_level_up leave
\* it unchanged, so level never decreases and never jumps by more than 1.
C10_LevelSteps ==
    [][/\ (Level(character') # Level(character)) => (op' = "complete_level_up" /\ ret')
       /\ (op' = "complete_level_up" /\ ret') => (Level(character') = Level(character) + 1)
       /\ (op' \in {"award_experience", "apply_level_up"}) =>
              (Level(character') = Level(character))
       /\ Level(character') >= Level(character)
       /\ Level(character') <= Level(character) + 1]_vars

C10_Witness ==
    /\ op = "complete_level_up" /\ ret /\ Level(character) = 3
    /\ Xp(character) = 0 /\ Len(Get(character, "abilities", <<>>)) = 1

Completed == op' = "complete_level_up" /\ ret'

HasHitPoints(c) == "current_hit_points" \in DOMAIN c /\ "max_hit_points" \in DOMAIN c

\* C11: complete_level_up advances the level only from the Eligible state,
\* i.e. only when experience_points >= threshold(level + 1) before the call.
C11_OnlyFromEligible ==
    [][(Completed /\ Level(character') # Level(character)) =>
           Xp(character) >= Threshold(Level(character) + 1)]_vars

\* C12 as stated: after a successful complete_level_up, check_level_up is
\* false for the new level, whatever experience had been accumulated.
C12_BackToAccruing == [][Completed => ~check_level_up(character')]_vars

\* C12 as amended: a successful complete_level_up leaves experience_points
\* unchanged, so afterwards check_level_up is true exactly when the
\* experience accumulated before the call reaches threshold(new level + 1).
C12_EligibleAfterLevelUp ==
    [][Completed =>
          /\ Xp(character') = Xp(character)
          /\ check_level_up(character') <=>
                 (Xp(character) >= Threshold(Level(character) + 2))]_vars

C12_Witness ==
    /\ op = "complete_level_up" /\ ret
    /\ Level(character) = 2 /\ Xp(character) = 3000 /\ check_level_up(character)

\* C13: complete_level_up on a character whose current_hit_points equals its
\* max_hit_points before the call leaves current_hit_points equal to the new
\* max_hit_points.
C13_FullHealAtMax ==
    [][(Completed /\ HasHitPoints(character)
        /\ character.current_hit_points = character.max_hit_points) =>
           character'.current_hit_points = character'.max_hit_points]_vars

\* C14: complete_level_up on a character whose current_hit_points is below
\* its previous max_hit_points leaves current_hit_points unchanged, raises
\* level by 1 and overwrites max_hit_points with calculate_hit_points at the
\* new level.
C14_DamageKept ==
    [][(Completed /\ HasHitPoints(character)
        /\ character.current_hit_points < character.max_hit_points) =>
           /\ character'.current_hit_points = character.current_hit_points
           /\ Level(character') = Level(character) + 1
           /\ character'.max_hit_points =
                  calculate_hit_points(Put(character, "level", Level(character) + 1))]_vars

C14_Witness ==
    /\ op = "complete_level_up" /\ ret /\ character.name = "Wizard"
    /\ Level(character) = 2
    /\ character.current_hit_points = 3 /\ character.max_hit_points = 10

AppliedOption(type) ==
    /\ op' = "apply_level_up"
    /\ Get(args'.option, "type", "") = type

Table(c, k) == Get(c, k, EmptyDict)

\* every key of table k other than name keeps its value, none is added or lost
OthersKept(c, d, k, name) ==
    /\ (DOMAIN Table(d, k)) \ {name} = (DOMAIN Table(c, k)) \ {name}
    /\ \A x \in (DOMAIN Table(c, k)) \ {name} : Table(d, k)[x] = Table(c, k)[x]

\* every top-level key other than k keeps its value, none is added or lost
RestKept(c, d, k) ==
    /\ (DOMAIN d) \ {k} = (DOMAIN c) \ {k}
    /\ \A x \in (DOMAIN c) \ {k} : d[x] = c[x]

\* C15: apply_level_up with an Attribute option and a named attribute sets
\* that attribute to its previous value + 1 (11 when absent), with a Skill
\* option and a named skill sets that skill to its previous value + 1 (1 when
\* absent); it returns True and changes no other attribute or skill, nor
\* level, experience_points or hit points.
C15_ImproveByOne ==
    [][/\ (AppliedOption("attribute") /\ "attribute" \in DOMAIN args'.details) =>
              LET name == args'.details.attribute IN
              /\ ret'
              /\ character'.attributes[name] = Get(Table(character, "attributes"), name, 10) + 1
              /\ OthersKept(character, character', "attributes", name)
              /\ RestKept(character, character', "attributes")
       /\ (AppliedOption("skill") /\ "skill" \in DOMAIN args'.details) =>
              LET name == args'.details.skill IN
              /\ ret'
              /\ character'.skills[name] = Get(Table(character, "skills"), name, 0) + 1
              /\ OthersKept(character, character', "skills", name)
              /\ RestKept(character, character', "skills")]_vars

C15_Witness ==
    /\ op = "apply_level_up" /\ ret /\ args.option.type = "attribute"
    /\ character.name = "Fighter"
    /\ character.attributes.constitution = 11 /\ character.attributes.strength = 11
    /\ character.skills.stealth = 1

\* C16: apply_level_up with an Ability option returns True and appends
\* exactly one record carrying the option's name, its description and the
\* character's current level to the ability list, leaving the records
\* gained before unchanged.
C16_AbilityGained ==
    [][AppliedOption("ability") =>
          LET old == Get(character, "abilities", <<>>)
              new == Get(character', "abilities", <<>>)
          IN /\ ret'
             /\ Len(new) = Len(old) + 1
             /\ SubSeq(new, 1, Len(old)) = old
             /\ new[Len(new)].name = args'.option.name
             /\ new[Len(new)].description = args'.option.description
             /\ new[Len(new)].gained_at = Level(character)]_vars

\* C17: whenever apply_level_up returns False the character record is
\* exactly what it was before the call.
C17_FailureLeavesCharacter ==
    [][(op' = "apply_level_up" /\ ~ret') => character' = character]_vars


\* the class named on the sheet has no entry under leveling in the rule tables
NoClassRules ==
    LET class_name == IF "class" \in DOMAIN character THEN character.class ELSE "fighter"
    IN ~(/\ "character_creation" \in DOMAIN rules_cache
         /\ rules_cache.character_creation.kind = "dict"
         /\ "leveling" \in DOMAIN rules_cache.character_creation.items
         /\ rules_cache.character_creation.items.leveling.kind = "dict"
         /\ class_name \in DOMAIN rules_cache.character_creation.items.leveling.items)

Offer(option) == <<option.type, option.cost, option.max_uses>>

Offers(options) == {Offer(options[i]) : i \in DOMAIN options}

\* C18: when the rule tables hold nothing for the character's class,
\* get_level_up_options offers the skill improvement (cost 500, at most 2 uses)
\* at every level and the attribute improvement (cost 1000, at most 1 use)
\* exactly when the level is a multiple of 4; listing the options leaves the
\* character as it was; and applying an offered attribute or skill improvement
\* to the attribute or skill it names succeeds whatever its cost and however
\* often it was applied before, without charging experience points.
C18_DefaultOptions ==
    [][/\ (op' = "get_level_up_options" /\ NoClassRules) =>
              /\ Offers(result'.options) =
                     {<<"skill", 500, 2>>}
                     \cup (IF Level(character) % 4 = 0
                           THEN {<<"attribute", 1000, 1>>} ELSE {})
              /\ Len(result'.options) = Cardinality(Offers(result'.options))
       /\ op' = "get_level_up_options" => character' = character
       /\ (/\ op' = "apply_level_up"
           /\ args'.option.type \in {"attribute", "skill"}
           /\ args'.option.type \in DOMAIN args'.details) =>
              /\ ret'
              /\ Xp(character') = Xp(character)]_vars

\* the attribute improvement, offered once at level 4 for 1000 points, was
\* applied a second time to a character with no experience points
C18_Witness ==
    /\ op = "apply_level_up"
    /\ args.option.type = "attribute"
    /\ args.option.max_uses = 1
    /\ rules_cache = EmptyDict
    /\ Level(character) = 4
    /\ Xp(character) < args.option.cost
    /\ character.attributes.constitution = 11
    /\ ret


\* the ways of writing the number n >= 0: its numeral, or that after a zero
Written(n) == {Numeral(n), <<"0">> \o Numeral(n)}

\* the ways of writing the modifier m: nothing for 0, or a sign and the magnitude
WrittenModifier(m) ==
    (IF m = 0 THEN {<<>>} ELSE {})
    \cup (IF m >= 0 THEN {<<"+">> \o w : w \in Written(m)} ELSE {})
    \cup (IF m <= 0 THEN {<<"-">> \o w : w \in Written(0 - m)} ELSE {})

\* text is <count>d<sides> and an optional signed modifier, and nothing else
WrittenAs(text, n, s, m) ==
    \E c \in Written(n), f \in Written(s), w \in WrittenModifier(m) :
        text = c \o <<"d">> \o f \o w

WellFormed(text) ==
    \E n \in 1..MaxCount, s \in 1..MaxSides, m \in (0 - MaxModifier)..MaxModifier :
        WrittenAs(text, n, s, m)

\* C19: roll_dice on a text that is not exactly <count>d<sides> with an
\* optional signed modifier, count and sides positive, reports an error that
\* carries the text, and rolls no dice.
C19_MalformedRejected ==
    (op = "roll_dice" /\ ~WellFormed(args.expression)) =>
        /\ "error" \in DOMAIN result
        /\ result.expression = args.expression
        /\ "individual_rolls" \notin DOMAIN result

\* C20: roll_dice on a well-formed text with count n, sides s and modifier m
\* (0 when omitted, of either sign) returns exactly n rolls, each in 1..s, and
\* the total is their sum plus m; "2d6+3" with faces 4 and 5 totals 12.
C20_RollsAndTotal ==
    op = "roll_dice" =>
        /\ \A n \in 1..MaxCount, s \in 1..MaxSides, m \in (0 - MaxModifier)..MaxModifier :
               WrittenAs(args.expression, n, s, m) =>
                   /\ "error" \notin DOMAIN result
                   /\ Len(result.individual_rolls) = n
                   /\ \A i \in 1..n : result.individual_rolls[i] \in 1..s
                   /\ result.total = SumSeq(result.individual_rolls) + m
        /\ (/\ args.expression = <<"2", "d", "6", "+", "3">>
            /\ "individual_rolls" \in DOMAIN result
            /\ result.individual_rolls = <<4, 5>>) => result.total = 12

\* "2d2-3" rolled 1 and 2: a negative modifier takes the total to 0
C20_Witness ==
    /\ op = "roll_dice"
    /\ args.expression = <<"2", "d", "2", "-", "3">>
    /\ "individual_rolls" \in DOMAIN result
    /\ result.individual_rolls = <<1, 2>>
    /\ result.total = 0


\* floor(a / b) for b > 0, as the one integer q with b * q <= a < b * q + b
Floor(a, b) == CHOOSE q \in (0 - 100)..100 : b * q <= a /\ a < b * q + b

Attacked == op = "resolve_combat_attack"

Face == result.attack_roll.individual_rolls[1]

AttackerScore(name) == Get(Get(args.attacker, "attributes", EmptyDict), name, 10)

\* the ability modifier of the attack: dexterity for a ranged weapon, else strength
ExpectedModifier ==
    IF DOMAIN args.weapon # {} /\ Get(args.weapon, "type", "") = "ranged"
    THEN Floor(AttackerScore("dexterity") - 10, 2)
    ELSE Floor(AttackerScore("strength") - 10, 2)

ExpectedAttackBonus ==
    Floor(Level(args.attacker) - 1, 4) + 1 + ExpectedModifier
    + Get(args.weapon, "attack_bonus", 0)

\* C21: the attack bonus of resolve_combat_attack is floor((level - 1) / 4) + 1
\* + the ability modifier + the weapon's attack bonus, the attack total is the
\* d20 face plus that bonus, and hit is true exactly when that total is at
\* least the target's armor class, whatever the sign of the bonus.
C21_AttackTotal ==
    Attacked =>
        /\ result.attack_bonus = ExpectedAttackBonus
        /\ result.attack_roll.total = Face + ExpectedAttackBonus
        /\ result.hit <=> (Face + ExpectedAttackBonus >= result.target_ac)

\* C22: critical_hit is true exactly when the d20 face is 20, whether or not
\* the attack hits; damage stays None on a miss and is rolled on a hit from the
\* weapon's damage dice ("1d4" when the weapon names none, "1d3" without a
\* weapon), its total being the dice total plus the ability modifier of the
\* attack, or plus 0 for a ranged weapon.
C22_CriticalAndDamage ==
    Attacked =>
        /\ result.critical_hit <=> (Face = 20)
        /\ ~result.hit => result.damage = None
        /\ result.hit =>
               /\ result.damage.expression =
                      (IF DOMAIN args.weapon = {} THEN <<"1", "d", "3">>
                       ELSE IF "damage" \in DOMAIN args.weapon THEN args.weapon.damage
                       ELSE <<"1", "d", "4">>)
               /\ Len(result.damage.individual_rolls) = result.damage.num_dice
               /\ result.damage.total =
                      SumSeq(result.damage.individual_rolls) + result.damage.modifier
                      + (IF Get(args.weapon, "type", "") = "ranged" THEN 0 ELSE ExpectedModifier)

\* a natural 20 that hits with a weak arm: the damage total is below the dice
C22_Witness ==
    /\ Attacked
    /\ result.critical_hit
    /\ result.hit
    /\ result.damage.total < SumSeq(result.damage.individual_rolls)


Checked == op \in {"resolve_ability_check", "resolve_skill_check"}

\* what the check adds to the d20 face
CheckBonus ==
    IF op = "resolve_skill_check" THEN result.skill_bonus
    ELSE Floor(result.ability_score - 10, 2)

Flags == DOMAIN result \cap {"advantage_used", "disadvantage_used"}

\* C23: resolve_ability_check and resolve_skill_check roll twice and return the
\* roll with the higher total, flagged advantage_used, when only advantage is
\* set; roll twice and return the roll with the lower total, flagged
\* disadvantage_used, when only disadvantage is set; and roll once, with
\* neither flag, when both or neither are set. The success flag of the result
\* is (total >= difficulty).
C23_AdvantageDisadvantage ==
    Checked =>
        /\ result.total = result.d20_roll + CheckBonus
        /\ result.success <=> (result.total >= args.difficulty)
        /\ (args.advantage /\ ~args.disadvantage) =>
               /\ Len(args.faces) = 2
               /\ result.d20_roll = Max(args.faces[1], args.faces[2])
               /\ Flags = {"advantage_used"} /\ result.advantage_used
        /\ (args.disadvantage /\ ~args.advantage) =>
               /\ Len(args.faces) = 2
               /\ result.d20_roll = Min(args.faces[1], args.faces[2])
               /\ Flags = {"disadvantage_used"} /\ result.disadvantage_used
        /\ (args.advantage = args.disadvantage) =>
               /\ Len(args.faces) = 1
               /\ result.d20_roll = args.faces[1]
               /\ Flags = {}

\* with advantage the first roll, 17, was kept over the second, 3
C23_Witness ==
    /\ op = "resolve_skill_check"
    /\ args.advantage /\ ~args.disadvantage
    /\ args.faces = <<17, 3>>
    /\ result.d20_roll = 17
    /\ result.advantage_used

\* C24: roll_rouse_check succeeds exactly when the d10 face is at least 6;
\* hunger_change is 0 on success and 1 on failure; new_hunger is hunger plus
\* hunger_change, never less than hunger; and a result without an error is
\* returned for every hunger.
C24_RouseCheck ==
    op = "roll_rouse_check" =>
        /\ result.success <=> (result.roll >= 6)
        /\ result.hunger_change = (IF result.success THEN 0 ELSE 1)
        /\ result.new_hunger = args.hunger + result.hunger_change
        /\ result.new_hunger \in {args.hunger, args.hunger + 1}
        /\ "error" \notin DOMAIN result

\* a face of 6 succeeds and leaves a hunger of -1 as it was
C24_Witness ==
    /\ op = "roll_rouse_check"
    /\ args.hunger = 0 - 1
    /\ result.roll = 6
    /\ result.success
    /\ result.new_hunger = 0 - 1

\* C25: calculate_ability_modifier(score) is floor((score - 10) / 2), rounding
\* toward negative infinity below 10 (10 gives 0, 8 and 9 give -1, 20 gives 5),
\* and roll_ability_check adds the same function of the score to the d20 face.
C25_AbilityModifier ==
    /\ op = "calculate_ability_modifier" =>
           /\ result.value = Floor(args.score - 10, 2)
           /\ args.score = 10 => result.value = 0
           /\ args.score \in {8, 9} => result.value = 0 - 1
           /\ args.score = 20 => result.value = 5
    /\ op = "roll_ability_check" =>
           /\ result.ability_modifier = Floor(args.score - 10, 2)
           /\ result.total = result.d20_roll + Floor(args.score - 10, 2)

\* the odd score 9 gives -1
C25_Witness ==
    /\ op = "calculate_ability_modifier"
    /\ args.score = 9
    /\ result.value = 0 - 1


PerLevelBase(class_name) ==
    IF class_name = "fighter" THEN 10
    ELSE IF class_name = "wizard" THEN 6
    ELSE 8

\* C26: calculate_hit_points is max(1, level * (perLevelBase(class) +
\* constitution modifier)), perLevelBase being 10 for a fighter, 6 for a
\* wizard and 8 for a rogue, a cleric and any other class, with constitution
\* 10 when the character has none; the result is never below 1.
C26_HitPoints ==
    op = "calculate_hit_points" =>
        LET constitution ==
                IF "attributes" \in DOMAIN character
                THEN character.attributes.constitution ELSE 10
            class_name == IF "class" \in DOMAIN character THEN character.class ELSE "fighter"
            perLevel == PerLevelBase(class_name) + Floor(constitution - 10, 2)
        IN /\ result.value = Max(1, Level(character) * perLevel)
           /\ result.value >= 1

\* a level-3 wizard with constitution -4 loses a point a level and has 1 hit point
C26_Witness ==
    /\ op = "calculate_hit_points"
    /\ Level(character) = 3
    /\ Get(character, "class", "fighter") = "wizard"
    /\ Get(Get(character, "attributes", EmptyDict), "constitution", 10) = 0 - 4
    /\ result.value = 1

\* the value a path leads to, one segment at a time; None from the first
\* segment that is missing or that is looked up in something that is no table
Followed(root, path) ==
    LET at[i \in 0..Len(path)] ==
            IF i = 0 THEN root
            ELSE IF at[i - 1].kind = "dict" /\ path[i] \in DOMAIN at[i - 1].items
                 THEN at[i - 1].items[path[i]]
                 ELSE [kind |-> "none"]
    IN at[Len(path)]

\* C27: get_rule returns the value found by following the path one segment at
\* a time, and None when the rule set or a segment is absent or an
\* intermediate value is no table; it leaves the rule tables as they are, and
\* a second call with the same arguments returns the same result.
C27_GetRule ==
    [][op' = "get_rule" =>
           /\ result'.value =
                  (IF args'.rule_name \in DOMAIN rules_cache
                   THEN Followed(rules_cache[args'.rule_name], args'.rule_path)
                   ELSE [kind |-> "none"])
           /\ rules_cache' = rules_cache
           /\ (op = "get_rule" /\ args' = args) => result' = result]_vars

\* a path that goes on below a number in the fighter's leveling table gives None
C27_Witness ==
    /\ op = "get_rule"
    /\ args.rule_name = "character_creation"
    /\ args.rule_path = <<"leveling", "fighter", "attribute_cost", "amount">>
    /\ "character_creation" \in DOMAIN rules_cache
    /\ Followed(rules_cache.character_creation, <<"leveling", "fighter", "attribute_cost">>).kind
           = "int"
    /\ result.value = [kind |-> "none"]


\* C30: get_experience_requirements is strictly increasing from level 1 on,
\* across the end of the table (level 10 to level 11) as well, so for a
\* character of level >= 1 the band threshold(level + 1) - threshold(level)
\* of get_experience_progress is positive and the percentage is computed from
\* it rather than set to 100.
C30_PositiveBand ==
    (op = "get_experience_progress" /\ Level(character) >= 1) =>
        /\ result.current_level_xp = Threshold(Level(character))
        /\ result.next_level_xp = Threshold(Level(character) + 1)
        /\ result.next_level_xp > result.current_level_xp
        /\ result.xp_needed = result.next_level_xp - result.current_level_xp
        /\ result.xp_needed > 0
        /\ result.progress_percentage.over = result.xp_needed
        /\ result.progress_percentage.times100 = Xp(character) - result.current_level_xp

\* the band from level 10, the last of the table, to level 11 is 10000 wide
C30_Witness ==
    /\ op = "get_experience_progress"
    /\ Level(character) = 10
    /\ result.current_level_xp = 45000
    /\ result.next_level_xp = 55000
    /\ result.xp_needed = 10000


\* C28: for a pool of p = attribute + skill > 0 dice and hunger h >= 0,
\* roll_dice_pool rolls min(h, p) hunger dice and p - min(h, p) normal dice:
\* the number of normal dice is never negative, the two numbers add up to p,
\* also when h > p, and every face is in 1..10.
C28_PoolPartition ==
    (Rolled /\ PoolSize > 0 /\ args.hunger >= 0) =>
        LET h == IF args.hunger <= PoolSize THEN args.hunger ELSE PoolSize
        IN /\ ~IsError
           /\ Len(result.hunger_rolls) = h
           /\ Len(result.normal_rolls) = PoolSize - h
           /\ Len(result.normal_rolls) >= 0
           /\ Len(result.normal_rolls) + Len(result.hunger_rolls) = PoolSize
           /\ result.all_rolls = result.normal_rolls \o result.hunger_rolls
           /\ \A i \in DOMAIN result.all_rolls : result.all_rolls[i] \in 1..10

\* a pool of three dice at hunger 2: one normal die and two hunger dice
C28_Witness ==
    /\ Rolled /\ PoolSize = 3 /\ args.hunger = 2
    /\ Len(RolledNormal) = 1 /\ Len(RolledHunger) = 2

\* current_hit_points is at most max_hit_points, which is at most what
\* calculate_hit_points gives: so it is for a character whose max_hit_points
\* equals calculate_hit_points
HitPointsSound(c) ==
    /\ HasHitPoints(c)
    /\ c.current_hit_points <= c.max_hit_points
    /\ c.max_hit_points <= calculate_hit_points(c)

\* C29: from a character whose max_hit_points is calculate_hit_points of it
\* and whose current_hit_points is at most that, every sequence of
\* award_experience, apply_level_up and complete_level_up calls keeps
\* current_hit_points <= max_hit_points and never lowers max_hit_points: each
\* call on a character with sound hit points leaves them sound and
\* max_hit_points at least what it was.
C29_HitPointsKept ==
    [][HitPointsSound(character) =>
           /\ HitPointsSound(character')
           /\ character'.current_hit_points <= character'.max_hit_points
           /\ character'.max_hit_points >= character.max_hit_points]_vars

\* a wounded wizard went from 5 to 10 hit points at most, still at 3
C29_Witness ==
    /\ op = "complete_level_up" /\ ret /\ character.name = "Wizard"
    /\ Level(character) = 2
    /\ Get(Get(character, "attributes", EmptyDict), "constitution", 10) = 9
    /\ character.current_hit_points < character.max_hit_points
    /\ character.max_hit_points = calculate_hit_points(character)

====
